---- MODULE Spec2Model ----
(***************************************************************************)
(* Model of dbb_ingest_ats.py (bin.src) and db_funcs.py (lsst.dbb.gateway): *)
(* the sequential ingest loop of main, handle_tarball step by step, the     *)
(* retrying move_file_to_dbb, the quarantine handler handle_bad_file, and   *)
(* the registry seen through one connection (committed state db, working    *)
(* state of the open transaction tx).                                       *)
(***************************************************************************)
EXTENDS Integers, FiniteSets, Sequences, TLC

\* ---------------------------------------------------------------- bounds
NBundles == 2
NFilenames == 2
NUuids == 2
NContents == 1
NFiles == 3
MaxMtime == 2

\* ------------------------------------------------------------- constants
DEFAULT_MV_TRIES == 5
DUPLICATE_MSG == "Duplicate file"
CONSISTENCY_MSG == "Consistency error.  Already on disk in DBB"
None == -1

Bundles == 1..NBundles
Filenames == 1..NFilenames
Uuids == 1..NUuids
\* content 0 is a damaged (partial or corrupted) copy; 1..NContents are payloads
Contents == 0..NContents

\* chksum_utils.calc_chksum: a digest of the content, injective on the model's
\* contents and never None
calc_chksum(content) == 2 * content + 1

Chksums == {calc_chksum(c) : c \in Contents}

\* a file of the archive: who wrote it (0: it was there before the run)
NoFile == [exists |-> FALSE, content |-> 0, owner |-> 0]
File(c, o) == [exists |-> TRUE, content |-> c, owner |-> o]

\* src_info before read_info_file has returned (the Python None)
NoSrcInfo == [parsed |-> FALSE, filename |-> 0, uuid |-> 0, chksum |-> 0, process_id |-> 0]
\* the tarball's content before it has been opened
NoTar == [fname |-> 0, uuid |-> 0, content |-> 0, info_content |-> 0, digest_file |-> 0,
          digest_info |-> 0, info_chksum |-> 0, members |-> "none"]
\* the members of a tarball: the three expected ones, or one of them missing, or
\* one more file that is neither a .info nor a .digest
Members == {"three", "no_manifest", "no_digest", "no_payload", "extra"}
\* a tarball: the payload (fname, content), the manifest (its own content, and the
\* uuid, filename and chksum it records), the digest (one chksum per member)
TarContents ==
    [fname : Filenames, uuid : Uuids, content : 1..NContents, info_content : {1},
     digest_file : Chksums, digest_info : Chksums, info_chksum : Chksums \cup {None},
     members : Members]
\* the name of the additional file of a tarball with one file too many
ExtraFile == NFilenames + 1

EmptyRegistry ==
    [process |-> {}, file_registration |-> {}, lookup |-> {}, dataset |-> {},
     datastore |-> {}, bad_file |-> {}]

NoMove == [pc |-> "idle", cp_cnt |-> 0, copied |-> FALSE, expected |-> 0, dst |-> 0,
           max_tries |-> 0, attempts |-> 0, fails |-> 0, matched |-> FALSE, unlinked |-> FALSE]

VARIABLES
    pc,            \* position of main
    cur,           \* index in tarballs of the bundle being handled
    keep,          \* args.keep
    dryrun,        \* args.dryrun
    workers,       \* concurrent runs of handle_tarball, each on its own connection
    listing,       \* the delivery directory, the list get_list_tarballs made of it, and
                   \* what main did with the list
    hpc,           \* position of handle_tarball
    tar,           \* content of the tarball being handled
    filename,      \* handle_tarball's filename, as get_filenames returned it
    src_info,      \* handle_tarball's src_info
    dataset_id,    \* handle_tarball's dataset_id
    dbb_fullname,  \* handle_tarball's dbb_fullname (None or a destination)
    exc,           \* the exception in flight, or the last one caught
    hbf,           \* pending call of handle_bad_file: caller and message
    mv,            \* locals of move_file_to_dbb
    staging,       \* tarballs present in the delivery directory
    quarantine,    \* per tarball basename: the file of that name in bad_file_dir/YYYY/MM
    archive,       \* per destination: the file in the DBB
    scratch_dirs,  \* scratch directories that exist
    payload,       \* the payload file of the current scratch directory
    cwd,           \* working directory: 0 the original one, b the scratch of bundle b
    db,            \* committed registry
    tx,            \* registry as seen by the connection (db plus uncommitted changes)
    seq,           \* DATASET_SEQ and PROCESS_SEQ
    fault,         \* where a failure of the environment hit the current bundle
    start          \* the archive, the committed registry and the quarantine directory when
                   \* the current bundle began

mainvars == <<pc, cur, keep, dryrun, listing, workers>>
htvars == <<hpc, tar, filename, src_info, dataset_id, dbb_fullname, exc, hbf>>
fsvars == <<staging, quarantine, archive, scratch_dirs, payload, cwd>>
dbvars == <<db, tx, seq>>
vars == <<pc, cur, keep, dryrun, listing, workers, hpc, tar, filename,
          src_info, dataset_id, dbb_fullname, exc, hbf, mv,
          staging, quarantine, archive, scratch_dirs, payload, cwd, db, tx, seq, fault,
          start>>

NoExc == [type |-> "none", msg |-> "none"]

\* ------------------------------------------------------- get_list_tarballs
\* the delivery directory: whether it exists, the names os.walk lists (in the order
\* it lists them), which of them end in .tar, and the modification time of each
FileNames == 1..NFiles
Mtimes == 1..MaxMtime
RECURSIVE Listings(_)
Listings(n) ==
    IF n = 0 THEN {<<>>}
    ELSE Listings(n - 1) \cup
         {Append(l, f) : l \in {k \in Listings(n - 1) : Len(k) = n - 1},
                         f \in FileNames}
Range(s) == {s[i] : i \in 1..Len(s)}
DeliveryDirs ==
    [exists : BOOLEAN,
     filenames : {l \in Listings(NFiles) : Cardinality(Range(l)) = Len(l)},
     is_tar : [FileNames -> BOOLEAN],
     mtime : [FileNames -> Mtimes]]

\* the list left as it was
sorted_unordered(s, key) == s

\* sorted(tarballs, key=os.path.getmtime), line 550: ascending by key, elements of
\* equal key in the order they had
RECURSIVE sorted(_, _)
sorted(s, key) ==
    IF s = <<>> THEN <<>>
    ELSE LET rest == sorted(Tail(s), key)
             n == Cardinality({i \in 1..Len(rest) : key[rest[i]] < key[Head(s)]})
         IN  SubSeq(rest, 1, n) \o <<Head(s)>> \o SubSeq(rest, n + 1, Len(rest))

\* lines 545-549: the names of the directory that end in .tar, in os.walk's order
RECURSIVE TarballsOf(_, _)
TarballsOf(names, is_tar) ==
    IF names = <<>> THEN <<>>
    ELSE (IF is_tar[Head(names)] THEN <<Head(names)>> ELSE <<>>) \o TarballsOf(Tail(names), is_tar)

\* the listing main works on in the ingest loop below: the bundles 1..NBundles,
\* delivered in that order
BundleListing ==
    [dir |-> [exists |-> TRUE, filenames |-> [i \in Bundles |-> i],
              is_tar |-> [f \in FileNames |-> TRUE], mtime |-> [f \in FileNames |-> 1]],
     tarballs |-> [i \in Bundles |-> i], dbh |-> TRUE, handled |-> <<>>]
NoCall == [from |-> "none", msg |-> "none"]

\* ------------------------------------------------------------------ Init
\* main after get_list_tarballs and open_db_connection: every bundle of the list
\* is in the delivery directory, the registry connection has nothing pending.
\* The archive and the quarantine directory may hold files of earlier runs.
\* parse_args (lines 96-99) has set args.keep and args.dryrun; nothing after
\* parse_args reads args.dryrun. The runs with --dryrun are explored without --keep,
\* from an empty archive and an empty quarantine directory.
InitCommon ==
    /\ tar = NoTar
    /\ filename = 0
    /\ src_info = NoSrcInfo
    /\ dataset_id = 0
    /\ dbb_fullname = None
    /\ exc = NoExc
    /\ hbf = NoCall
    /\ staging = Bundles
    /\ scratch_dirs = {}
    /\ cwd = 0
    /\ db = EmptyRegistry
    /\ tx = EmptyRegistry
    /\ seq = [process |-> 0, dataset |-> 0]
    /\ fault = "none"

Init ==
    /\ InitCommon
    /\ pc = "loop"
    /\ cur = 0
    /\ listing = BundleListing
    /\ workers = <<>>
    /\ dryrun \in BOOLEAN
    /\ keep \in (IF dryrun THEN {FALSE} ELSE BOOLEAN)
    /\ hpc = "idle"
    /\ mv = NoMove
    /\ payload = NoFile
    /\ quarantine \in (IF dryrun THEN {[b \in Bundles |-> "none"]}
                              ELSE [Bundles -> {"none", "stale"}])
    /\ archive \in (IF dryrun THEN {[f \in Filenames |-> NoFile]}
                           ELSE [Filenames -> {NoFile} \cup {File(c, 0) : c \in 1..NContents}])
    /\ start = [archive |-> archive, db |-> db, quarantine |-> quarantine]

\* ------------------------------------------------------------ exceptions
\* every exception enters the handler
Raise_all_caught(type, msg) ==
    /\ exc' = [type |-> type, msg |-> msg]
    /\ hpc' = "except"

\* an exception raised inside handle_tarball's try block: SyntaxError is re-raised
\* (lines 436-437), anything else enters the handler of line 438
Raise(type, msg) ==
    /\ exc' = [type |-> type, msg |-> msg]
    /\ hpc' = IF type = "SyntaxError" THEN "raised" ELSE "except"

\* a failure of the environment (I/O, registry, a library) at the named step
Failure(step) ==
    /\ \E type \in {"Exception", "SyntaxError"} : Raise(type, step)
    /\ fault' = step

\* ------------------------------------------------------------------ main
\* main, lines 687-690: the next tarball of the list gets a fresh scratch directory
\* and handle_tarball starts (lines 383-384)
main_next ==
    /\ pc = "loop"
    /\ cur < NBundles
    /\ cur' = cur + 1
    /\ pc' = "handle"
    /\ hpc' = "exists"
    /\ scratch_dirs' = scratch_dirs \cup {cur + 1}
    /\ exc' = NoExc
    /\ fault' = "none"
    /\ start' = [archive |-> archive, db |-> db, quarantine |-> quarantine]
    /\ UNCHANGED <<keep, dryrun, listing, workers, tar, filename, src_info, dataset_id, dbb_fullname, hbf, mv,
                   staging, quarantine, archive, payload, cwd, db, tx, seq>>

\* the scratch directory is left in place
rmtree_skipped(dirs, scratch_dir, kept) == dirs

\* lines 696-697: shutil.rmtree(scratch_dir) unless args.keep
rmtree(dirs, scratch_dir, kept) == IF kept THEN dirs ELSE dirs \ {scratch_dir}

\* main, lines 694-697: the finally clause, after handle_tarball returned or raised;
\* handle_tarball's locals are gone, an exception goes on out of main
main_finally ==
    /\ pc = "handle"
    /\ hpc \in {"returned", "raised"}
    /\ cwd' = 0
    /\ scratch_dirs' = rmtree(scratch_dirs, cur, keep)
    /\ pc' = IF hpc = "raised" THEN "aborted" ELSE "loop"
    /\ hpc' = "idle"
    /\ payload' = NoFile
    /\ tar' = NoTar
    /\ filename' = 0
    /\ src_info' = NoSrcInfo
    /\ dataset_id' = 0
    /\ dbb_fullname' = None
    /\ hbf' = NoCall
    /\ mv' = NoMove
    /\ UNCHANGED <<cur, keep, dryrun, listing, workers, exc, staging, quarantine, archive, db, tx, seq, fault,
                   start>>

\* main, line 698: dbh.close() drops whatever the connection has not committed
main_close ==
    /\ pc = "loop"
    /\ cur = NBundles
    /\ pc' = "closed"
    /\ tx' = db
    /\ UNCHANGED <<cur, keep, dryrun, listing, workers, htvars, mv, fsvars, db, seq, fault, start>>

\* -------------------------------------------------------- handle_tarball
\* lines 389-391
tarball_exists ==
    /\ pc = "handle" /\ hpc = "exists"
    /\ hpc' = IF cur \in staging THEN "untar" ELSE "returned"
    /\ UNCHANGED <<mainvars, tar, filename, src_info, dataset_id, dbb_fullname, exc, hbf, mv,
                   fsvars, dbvars, fault, start>>

\* line 393: the members land in the scratch directory
untar2dir ==
    /\ pc = "handle" /\ hpc = "untar"
    /\ \/ /\ \E t \in TarContents :
                /\ tar' = t
                /\ payload' = IF t.members = "no_payload" THEN NoFile ELSE File(t.content, cur)
          /\ hpc' = "get_filenames"
          /\ UNCHANGED <<exc, fault>>
       \/ /\ Failure("untar2dir")
          /\ UNCHANGED <<tar, payload>>
    /\ UNCHANGED <<mainvars, filename, src_info, dataset_id, dbb_fullname, hbf, mv,
                   staging, quarantine, archive, scratch_dirs, cwd, dbvars, start>>

\* get_filenames, lines 618-631: of the files that end neither in .info nor in
\* .digest, the last one glob returned; None when there is none. The number of
\* files is not looked at.
FilenameChoices(t) ==
    IF t.members = "no_payload" THEN {None}
    ELSE IF t.members = "extra" THEN {t.fname, ExtraFile}
    ELSE {t.fname}

\* lines 395-400: chdir, get_filenames, read_digest; open(None) is a TypeError
get_filenames ==
    /\ pc = "handle" /\ hpc = "get_filenames"
    /\ cwd' = cur
    /\ \E f \in FilenameChoices(tar) : filename' = f
    /\ \/ /\ IF tar.members = "no_digest"
             THEN Raise("TypeError", "open")
             ELSE hpc' = "integrity_info" /\ UNCHANGED exc
          /\ UNCHANGED fault
       \/ Failure("read_digest")
    /\ UNCHANGED <<mainvars, tar, src_info, dataset_id, dbb_fullname, hbf, mv,
                   staging, quarantine, archive, scratch_dirs, payload, dbvars, start>>

\* the comparison always passes
integrity_check_passes(expected, actual, next) ==
    /\ hpc' = next
    /\ UNCHANGED <<exc, fault>>

\* integrity_check, lines 652-658: ValueError unless expected = actual
integrity_check(expected, actual, next) ==
    /\ IF expected # actual
       THEN Raise("ValueError", "chksums do not match")
       ELSE hpc' = next /\ UNCHANGED exc
    /\ UNCHANGED fault

\* line 402: the manifest against the digest; digest[None] is a KeyError
integrity_check_info ==
    /\ pc = "handle" /\ hpc = "integrity_info"
    /\ \/ IF tar.members = "no_manifest"
          THEN Raise("KeyError", "digest") /\ UNCHANGED fault
          ELSE integrity_check(tar.digest_info, calc_chksum(tar.info_content), "integrity_file")
       \/ Failure("integrity_check_info")
    /\ UNCHANGED <<mainvars, tar, filename, src_info, dataset_id, dbb_fullname, hbf, mv, fsvars, dbvars, start>>

\* line 403: the payload against the digest; the digest has a line for the
\* manifest and one for the payload, digest[filename] of another name is a KeyError
integrity_check_file ==
    /\ pc = "handle" /\ hpc = "integrity_file"
    /\ \/ IF filename # tar.fname
          THEN Raise("KeyError", "digest") /\ UNCHANGED fault
          ELSE integrity_check(tar.digest_file, calc_chksum(payload.content), "read_info")
       \/ Failure("integrity_check_file")
    /\ UNCHANGED <<mainvars, tar, filename, src_info, dataset_id, dbb_fullname, hbf, mv, fsvars, dbvars, start>>

\* lines 405-406: src_info is the manifest plus tar_filename; it has no process_id yet
read_info_file ==
    /\ pc = "handle" /\ hpc = "read_info"
    /\ \/ /\ src_info' = [parsed |-> TRUE, filename |-> tar.fname, uuid |-> tar.uuid,
                          chksum |-> tar.info_chksum, process_id |-> 0]
          /\ hpc' = "consistency"
          /\ UNCHANGED <<exc, fault>>
       \/ Failure("read_info_file") /\ UNCHANGED src_info
    /\ UNCHANGED <<mainvars, tar, filename, dataset_id, dbb_fullname, hbf, mv, fsvars, dbvars, start>>

\* lines 409-411: the digest's payload checksum against the manifest's
consistency_check ==
    /\ pc = "handle" /\ hpc = "consistency"
    /\ IF tar.digest_file # src_info.chksum
       THEN Raise("ValueError", "Internal consistency check failed")
       ELSE hpc' = "get_process" /\ UNCHANGED exc
    /\ UNCHANGED <<mainvars, tar, filename, src_info, dataset_id, dbb_fullname, hbf, mv,
                   fsvars, dbvars, fault, start>>

\* --------------------------------------------------------------- db_funcs
\* the lookup finds nothing
get_registration_process_id_none(reg, uuid) == None

\* get_registration_process_id, lines 219-229: fetchone of the lookup rows of uuid
LookupRows(reg, uuid) == {r \in reg.lookup : r.uuid = uuid}
get_registration_process_id(reg, uuid) ==
    IF LookupRows(reg, uuid) = {} THEN None
    ELSE (CHOOSE r \in LookupRows(reg, uuid) : TRUE).process_id

\* create_new_process and save_registration_info, lines 247-291: the three inserts
RegistrationRows(reg, info, process_id) ==
    [reg EXCEPT !.process = @ \cup {[id |-> process_id, end_time |-> FALSE]},
                !.file_registration = @ \cup {process_id},
                !.lookup = @ \cup {[uuid |-> info.uuid, process_id |-> process_id]}]

\* the select finds nothing
filename_exists_in_dbb_never(reg, name) == FALSE

\* filename_exists_in_dbb, lines 116-121
filename_exists_in_dbb(reg, name) == \E r \in reg.datastore : r.filename = name

\* register_file_data, lines 140-147
DatasetRow(id, info) == [id |-> id, process_id |-> info.process_id]
register_file_data(reg, id, info) == [reg EXCEPT !.dataset = @ \cup {DatasetRow(id, info)}]

\* the insert left out
save_datastore_info_skipped(reg, info, id) == reg

\* the insert executed a second time, under the next dataset id
save_datastore_info_twice(reg, info, id) ==
    [reg EXCEPT !.datastore = @ \cup {[dataset_id |-> id, filename |-> info.filename, chksum |-> info.chksum],
                                      [dataset_id |-> id + 1, filename |-> info.filename, chksum |-> info.chksum]}]

\* save_datastore_info, lines 89-98
DatastoreRow(info, id) == [dataset_id |-> id, filename |-> info.filename, chksum |-> info.chksum]
save_datastore_info(reg, info, id) == [reg EXCEPT !.datastore = @ \cup {DatastoreRow(info, id)}]

\* save_end_time, lines 160-163
save_end_time(reg, process_id) ==
    [reg EXCEPT !.process = {IF r.id = process_id THEN [r EXCEPT !.end_time = TRUE] ELSE r : r \in @}]

\* save_bad_file_db, lines 183-199: the row, with the manifest's fields and the
\* process id when src_info is given
BadFileRow(name, msg, info) ==
    [uniq_filename |-> name, rejected_msg |-> msg, filename |-> info.filename,
     process_id |-> info.process_id]
save_bad_file_db(reg, name, msg, info) ==
    [reg EXCEPT !.bad_file = @ \cup {BadFileRow(name, msg, info)}]

\* the pending changes stay pending
dbh_commit_skipped(committed, pending) == committed

\* dbh.commit(), line 434: the pending changes become the committed rows
dbh_commit(committed, pending) == pending

\* the pending changes are kept
rollback_skipped(committed, pending) == pending

\* dbh.rollback(), lines 446 and 501: the connection sees the committed rows again
rollback(committed, pending) == committed

\* create_dbb_path, lines 233-243: the destination is made of the archive root, the
\* directory pattern filled from the payload's headers, and the payload's basename
create_dbb_path(info) == info.filename

\* --------------------------------------------- handle_tarball, registration
\* lines 413-417: look the process of the uuid up, or create and commit it
\* (save_registration_info ends with dbh.commit(), line 293)
resolve_process ==
    /\ pc = "handle" /\ hpc = "get_process"
    /\ LET found == get_registration_process_id(tx, src_info.uuid)
           new == seq.process + 1
       IN  \/ /\ found # None
              /\ src_info' = [src_info EXCEPT !.process_id = found]
              /\ hpc' = "dup_check"
              /\ UNCHANGED <<db, tx, seq, exc, fault>>
           \/ /\ found = None
              /\ seq' = [seq EXCEPT !.process = new]
              /\ tx' = RegistrationRows(tx, src_info, new)
              /\ db' = tx'
              /\ src_info' = [src_info EXCEPT !.process_id = new]
              /\ hpc' = "dup_check"
              /\ UNCHANGED <<exc, fault>>
           \/ /\ Failure("get_registration_process_id")
              /\ UNCHANGED <<db, tx, seq, src_info>>
           \/ /\ found = None
              /\ Failure("save_registration_info")
              /\ seq' = [seq EXCEPT !.process = new]
              /\ tx' = RegistrationRows(tx, src_info, new)
              /\ UNCHANGED <<db, src_info>>
    /\ UNCHANGED <<mainvars, tar, filename, dataset_id, dbb_fullname, hbf, mv, fsvars, start>>

\* lines 419-421: a filename that has a DatastoreEntry goes to handle_bad_file
duplicate_check ==
    /\ pc = "handle" /\ hpc = "dup_check"
    /\ \/ /\ IF filename_exists_in_dbb(tx, src_info.filename)
             THEN hpc' = "bad_file" /\ hbf' = [from |-> "duplicate", msg |-> DUPLICATE_MSG]
             ELSE hpc' = "register" /\ UNCHANGED hbf
          /\ UNCHANGED <<exc, fault>>
       \/ Failure("filename_exists_in_dbb") /\ UNCHANGED hbf
    /\ UNCHANGED <<mainvars, tar, filename, src_info, dataset_id, dbb_fullname, mv, fsvars, dbvars, start>>

\* line 424: a new dataset id and the Dataset row, uncommitted
register_dataset ==
    /\ pc = "handle" /\ hpc = "register"
    /\ \/ /\ seq' = [seq EXCEPT !.dataset = @ + 1]
          /\ dataset_id' = seq'.dataset
          /\ tx' = register_file_data(tx, dataset_id', src_info)
          /\ hpc' = "resolve_path"
          /\ UNCHANGED <<exc, fault>>
       \/ Failure("register_file_data") /\ UNCHANGED <<seq, dataset_id, tx>>
    /\ UNCHANGED <<mainvars, tar, filename, src_info, dbb_fullname, hbf, mv, fsvars, db, start>>

\* ------------------------------------------------------ save_file_datastore
\* line 266: create_dbb_path opens the payload and fills the directory pattern
resolve_path ==
    /\ pc = "handle" /\ hpc = "resolve_path"
    /\ \/ hpc' = "dest_exists" /\ UNCHANGED <<exc, fault>>
       \/ Failure("create_dbb_path")
    /\ UNCHANGED <<mainvars, tar, filename, src_info, dataset_id, dbb_fullname, hbf, mv, fsvars, dbvars, start>>

\* lines 270-271: an existing destination calls handle_bad_file; the call is not
\* followed by a return or a raise, so control comes back to line 274
destination_check ==
    /\ pc = "handle" /\ hpc = "dest_exists"
    /\ IF archive[create_dbb_path(src_info)].exists
       THEN hpc' = "bad_file" /\ hbf' = [from |-> "save_file_datastore", msg |-> CONSISTENCY_MSG]
       ELSE hpc' = "move_call" /\ UNCHANGED hbf
    /\ UNCHANGED <<mainvars, tar, filename, src_info, dataset_id, dbb_fullname, exc, mv,
                   fsvars, dbvars, fault, start>>

\* lines 274-275 and 303-308: the call of move_file_to_dbb
MoveCall(expected, dst, max_tries) ==
    [pc |-> "loop", cp_cnt |-> 1, copied |-> FALSE, expected |-> expected, dst |-> dst,
     max_tries |-> max_tries, attempts |-> 0, fails |-> 0, matched |-> FALSE,
     unlinked |-> FALSE]

move_call ==
    /\ pc = "handle" /\ hpc = "move_call"
    /\ mv' = MoveCall(src_info.chksum, create_dbb_path(src_info), DEFAULT_MV_TRIES)
    /\ hpc' = "move"
    /\ UNCHANGED <<mainvars, tar, filename, src_info, dataset_id, dbb_fullname, exc, hbf,
                   fsvars, dbvars, fault, start>>

\* ---------------------------------------------------------- move_file_to_dbb
\* the loop goes on after a copy that passed
MoveLoopGuard_tries_only(m) == m.cp_cnt <= m.max_tries

\* the loop gives up one attempt early
MoveLoopGuard_one_short(m) == m.cp_cnt < m.max_tries /\ ~m.copied

\* line 309
MoveLoopGuard(m) == m.cp_cnt <= m.max_tries /\ ~m.copied

\* the copy taken as good without the comparison
AfterCopy_unchecked(m, written) == [m EXCEPT !.copied = TRUE, !.attempts = @ + 1]

\* lines 320-328: what the comparison of the checksums decides after a copy that
\* left `written` at the destination
AfterCopy(m, written) ==
    IF m.expected = None
    THEN [m EXCEPT !.copied = TRUE, !.attempts = @ + 1]
    ELSE IF m.expected # calc_chksum(written.content)
         THEN [m EXCEPT !.cp_cnt = @ + 1, !.attempts = @ + 1, !.fails = @ + 1]
         ELSE [m EXCEPT !.copied = TRUE, !.attempts = @ + 1, !.matched = TRUE]

\* lines 329-334: an IOError of makedirs, copy2 or calc_chksum
AfterIOError(m) == [m EXCEPT !.cp_cnt = @ + 1, !.attempts = @ + 1, !.fails = @ + 1]

\* lines 310-334: one pass of the loop. The copy is exact, or damaged (content 0),
\* or an IOError is raised, after which whatever is at the destination is unlinked
move_attempt ==
    /\ mv.pc = "loop"
    /\ MoveLoopGuard(mv)
    /\ \/ /\ payload.exists
          /\ \E c \in {payload.content, 0} :
                /\ mv' = AfterCopy(mv, File(c, cur))
                /\ archive' = [archive EXCEPT ![mv.dst] = IF mv'.copied THEN File(c, cur) ELSE NoFile]
       \/ /\ mv' = AfterIOError(mv)
          /\ archive' = [archive EXCEPT ![mv.dst] = NoFile]
    /\ UNCHANGED <<mainvars, htvars, staging, quarantine, scratch_dirs, payload, cwd,
                   dbvars, fault, start>>

\* lines 336-340: IOError when nothing was copied, else the source is unlinked
move_exit ==
    /\ mv.pc = "loop"
    /\ ~MoveLoopGuard(mv)
    /\ IF ~mv.copied
       THEN mv' = [mv EXCEPT !.pc = "raised"] /\ UNCHANGED payload
       ELSE mv' = [mv EXCEPT !.pc = "done", !.unlinked = TRUE] /\ payload' = NoFile
    /\ UNCHANGED <<mainvars, htvars, staging, quarantine, archive, scratch_dirs, cwd,
                   dbvars, fault, start>>

\* back in save_file_datastore, line 274: the IOError of line 337 propagates
move_return ==
    /\ pc = "handle" /\ hpc = "move"
    /\ mv.pc \in {"done", "raised"}
    /\ IF mv.pc = "raised"
       THEN Raise("IOError", "Cannot cp file") /\ fault' = "move_file_to_dbb"
       ELSE hpc' = "save_ds" /\ UNCHANGED <<exc, fault>>
    /\ mv' = [NoMove EXCEPT !.attempts = mv.attempts]
    /\ UNCHANGED <<mainvars, tar, filename, src_info, dataset_id, dbb_fullname, hbf, fsvars, dbvars, start>>

\* lines 278-280 and 428: the DatastoreEntry row, uncommitted; only when
\* save_file_datastore returns does handle_tarball's dbb_fullname get its value
store_datastore_info ==
    /\ pc = "handle" /\ hpc = "save_ds"
    /\ \/ /\ tx' = save_datastore_info(tx, src_info, dataset_id)
          /\ dbb_fullname' = create_dbb_path(src_info)
          /\ hpc' = "rm_tar"
          /\ UNCHANGED <<exc, fault>>
       \/ Failure("save_datastore_info") /\ UNCHANGED <<tx, dbb_fullname>>
    /\ UNCHANGED <<mainvars, tar, filename, src_info, dataset_id, hbf, mv, fsvars, db, seq, start>>

\* ------------------------------------------------- handle_tarball, the end
\* line 432: os.remove(tar_filename); FileNotFoundError when it is no longer there
remove_tarball ==
    /\ pc = "handle" /\ hpc = "rm_tar"
    /\ \/ /\ IF cur \in staging
             THEN staging' = staging \ {cur} /\ hpc' = "end_time" /\ UNCHANGED exc
             ELSE Raise("FileNotFoundError", "os.remove") /\ UNCHANGED staging
          /\ UNCHANGED fault
       \/ Failure("os.remove") /\ UNCHANGED staging
    /\ UNCHANGED <<mainvars, tar, filename, src_info, dataset_id, dbb_fullname, hbf, mv,
                   quarantine, archive, scratch_dirs, payload, cwd, dbvars, start>>

\* line 433
mark_end_time ==
    /\ pc = "handle" /\ hpc = "end_time"
    /\ \/ /\ tx' = save_end_time(tx, src_info.process_id)
          /\ hpc' = "commit"
          /\ UNCHANGED <<exc, fault>>
       \/ Failure("save_end_time") /\ UNCHANGED tx
    /\ UNCHANGED <<mainvars, tar, filename, src_info, dataset_id, dbb_fullname, hbf, mv, fsvars, db, seq, start>>

\* line 434
commit ==
    /\ pc = "handle" /\ hpc = "commit"
    /\ \/ /\ db' = dbh_commit(db, tx)
          /\ hpc' = "returned"
          /\ UNCHANGED <<exc, fault>>
       \/ Failure("commit") /\ UNCHANGED db
    /\ UNCHANGED <<mainvars, tar, filename, src_info, dataset_id, dbb_fullname, hbf, mv, fsvars, tx, seq, start>>

\* lines 438-453: rollback, remove the file from the DBB when dbb_fullname is set,
\* then handle_bad_file with the exception's text
except_handler ==
    /\ pc = "handle" /\ hpc = "except"
    /\ tx' = rollback(db, tx)
    /\ archive' = IF dbb_fullname # None THEN [archive EXCEPT ![dbb_fullname] = NoFile]
                  ELSE archive
    /\ hbf' = [from |-> "except", msg |-> exc.msg]
    /\ hpc' = "bad_file"
    /\ UNCHANGED <<mainvars, tar, filename, src_info, dataset_id, dbb_fullname, exc, mv,
                   staging, quarantine, scratch_dirs, payload, cwd, db, seq, fault, start>>

\* --------------------------------------------------------- handle_bad_file
\* a stale file of that name is left where it is
move_bad_file_stale_kept(q, tar_filename) ==
    [q EXCEPT ![tar_filename] = IF @ = "stale" THEN "stale" ELSE "bundle"]

\* move_bad_file, lines 472-484: a stale file of that name is removed, the tarball
\* takes its place
move_bad_file(q, tar_filename) == [q EXCEPT ![tar_filename] = "bundle"]

\* what handle_bad_file raises, lines 501-521: TypeError at line 505 when src_info
\* is None, FileNotFoundError at line 514 when the tarball is gone, KeyError at
\* line 188 (save_bad_file_db) when src_info has no process_id
BadFileError(info, there) ==
    IF ~info.parsed THEN "TypeError"
    ELSE IF ~there THEN "FileNotFoundError"
    ELSE IF info.process_id = 0 THEN "KeyError"
    ELSE "none"

\* where control goes after handle_bad_file: an exception inside the try block
\* (lines 421, 271) is caught at line 438, one inside the handler (line 453) leaves
\* handle_tarball; a normal return continues the caller
AfterBadFile(from, error) ==
    IF error # "none"
    THEN IF from = "except" THEN "raised" ELSE "except"
    ELSE IF from = "save_file_datastore" THEN "move_call" ELSE "returned"

\* handle_bad_file, lines 501-521, with move_bad_file and save_bad_file_db
handle_bad_file ==
    /\ pc = "handle" /\ hpc = "bad_file"
    /\ LET error == BadFileError(src_info, cur \in staging)
           moved == src_info.parsed /\ cur \in staging
           saved == error = "none"
           undone == rollback(db, tx)
           row == save_bad_file_db(undone, cur, hbf.msg, src_info)
       IN  /\ staging' = IF moved THEN staging \ {cur} ELSE staging
           /\ quarantine' = IF moved THEN move_bad_file(quarantine, cur) ELSE quarantine
           /\ tx' = IF saved THEN row ELSE undone
           /\ db' = IF saved THEN row ELSE db
           /\ exc' = IF saved THEN exc ELSE [type |-> error, msg |-> "handle_bad_file"]
           /\ hpc' = AfterBadFile(hbf.from, error)
    /\ UNCHANGED <<mainvars, tar, filename, src_info, dataset_id, dbb_fullname, hbf, mv,
                   archive, scratch_dirs, payload, cwd, seq, fault, start>>

\* ------------------------------------------------------------------ Next
Next ==
    \/ main_next
    \/ main_finally
    \/ main_close
    \/ tarball_exists
    \/ untar2dir
    \/ get_filenames
    \/ integrity_check_info
    \/ integrity_check_file
    \/ read_info_file
    \/ consistency_check
    \/ resolve_process
    \/ duplicate_check
    \/ register_dataset
    \/ resolve_path
    \/ destination_check
    \/ move_call
    \/ move_attempt
    \/ move_exit
    \/ move_return
    \/ store_datastore_info
    \/ remove_tarball
    \/ mark_end_time
    \/ commit
    \/ except_handler
    \/ handle_bad_file

Spec == Init /\ [][Next]_vars

\* -------------------------------------------- move_file_to_dbb on its own
\* A call of move_file_to_dbb(src, expected_chksum, chksum_type, dst, max_tries) with
\* the arguments its signature admits: any expected checksum or None, an existing
\* source, a destination that exists or not, 1 to DEFAULT_MV_TRIES tries
InitMove ==
    /\ InitCommon
    /\ pc = "move_file_to_dbb"
    /\ cur = 1
    /\ listing = BundleListing
    /\ workers = <<>>
    /\ keep = FALSE
    /\ dryrun = FALSE
    /\ hpc = "idle"
    /\ quarantine = [b \in Bundles |-> "none"]
    /\ \E c \in 1..NContents : payload = File(c, 1)
    /\ archive \in [Filenames -> {NoFile} \cup {File(c, 0) : c \in Contents}]
    /\ \E e \in Chksums \cup {None}, d \in Filenames, n \in 1..DEFAULT_MV_TRIES :
          mv = MoveCall(e, d, n)
    /\ start = [archive |-> archive, db |-> db, quarantine |-> quarantine]

NextMove ==
    \/ move_attempt
    \/ move_exit

SpecMove == InitMove /\ [][NextMove]_vars

\* -------------------------------------- main around get_list_tarballs
\* main, lines 669-680, before get_list_tarballs is called: any delivery directory
InitList ==
    /\ InitCommon
    /\ pc = "get_list_tarballs"
    /\ cur = 0
    /\ workers = <<>>
    /\ keep = FALSE
    /\ dryrun = FALSE
    /\ hpc = "idle"
    /\ mv = NoMove
    /\ payload = NoFile
    /\ quarantine = [b \in Bundles |-> "none"]
    /\ archive = [f \in Filenames |-> NoFile]
    /\ start = [archive |-> archive, db |-> db, quarantine |-> quarantine]
    /\ \E d \in DeliveryDirs :
          listing = [dir |-> d, tarballs |-> <<>>, dbh |-> FALSE, handled |-> <<>>]

\* get_list_tarballs, lines 542-550, called at line 681
get_list_tarballs ==
    /\ pc = "get_list_tarballs"
    /\ IF ~listing.dir.exists
       THEN pc' = "FileNotFoundError" /\ UNCHANGED listing
       ELSE /\ listing' = [listing EXCEPT !.tarballs =
                              sorted(TarballsOf(listing.dir.filenames, listing.dir.is_tar),
                                     listing.dir.mtime)]
            /\ pc' = "if_tarballs"
    /\ UNCHANGED <<cur, keep, dryrun, workers, htvars, mv, fsvars, dbvars, fault, start>>

\* main, lines 684-685 and 699-700: the connection is opened when the list is not empty
open_db_connection ==
    /\ pc = "if_tarballs"
    /\ IF listing.tarballs # <<>>
       THEN pc' = "for" /\ listing' = [listing EXCEPT !.dbh = TRUE]
       ELSE pc' = "done" /\ UNCHANGED listing
    /\ UNCHANGED <<cur, keep, dryrun, workers, htvars, mv, fsvars, dbvars, fault, start>>

\* main, lines 687-698: the loop takes the tarballs in the order of the list, then
\* the connection is closed
main_for ==
    /\ pc = "for"
    /\ IF cur < Len(listing.tarballs)
       THEN /\ cur' = cur + 1
            /\ listing' = [listing EXCEPT !.handled = Append(@, listing.tarballs[cur + 1])]
            /\ pc' = "for"
       ELSE /\ pc' = "done"
            /\ listing' = [listing EXCEPT !.dbh = FALSE]
            /\ UNCHANGED cur
    /\ UNCHANGED <<keep, dryrun, workers, htvars, mv, fsvars, dbvars, fault, start>>

NextList ==
    \/ get_list_tarballs
    \/ open_db_connection
    \/ main_for

SpecList == InitList /\ [][NextList]_vars

\* ------------------------------------- handle_tarball run by several workers
\* Worker w handles bundle w on a connection of its own, from the duplicate check
\* (line 419) to the commit (line 434), its manifest verified and its process
\* resolved. A connection reads what is committed and what it has pending itself.
Workers == Bundles
WorkerInfo(w) ==
    [parsed |-> TRUE, filename |-> workers[w].filename, uuid |-> w,
     chksum |-> calc_chksum(NContents), process_id |-> w]
WorkerView(w) ==
    [db EXCEPT !.dataset = @ \cup workers[w].pending.dataset,
               !.datastore = @ \cup workers[w].pending.datastore]
NothingPending == [dataset |-> {}, datastore |-> {}]
\* the other workers that are past their duplicate check and have not ended
Overlapping(w) ==
    {o \in Workers \ {w} :
        workers[o].filename = workers[w].filename
        /\ workers[o].pc \in {"register", "dest_exists", "move", "save_ds", "rm_tar", "commit"}}

InitWorkers ==
    /\ InitCommon
    /\ pc = "workers"
    /\ cur = 0
    /\ keep = FALSE
    /\ dryrun = FALSE
    /\ listing = BundleListing
    /\ hpc = "idle"
    /\ mv = NoMove
    /\ payload = NoFile
    /\ quarantine = [b \in Bundles |-> "none"]
    /\ archive \in [Filenames -> {NoFile} \cup {File(c, 0) : c \in 1..NContents}]
    /\ start = [archive |-> archive, db |-> db, quarantine |-> quarantine]
    /\ workers \in [Workers -> [pc : {"dup_check"}, filename : Filenames, dataset_id : {0},
                                 pending : {NothingPending}, committed : {FALSE},
                                 overlap : {FALSE}]]

\* handle_bad_file on worker w's connection, lines 501-521: rollback, the tarball
\* moved to the quarantine directory, the BadFileRecord committed; FileNotFoundError
\* at line 514 when the tarball is gone
worker_bad_file(w, msg, next) ==
    IF w \in staging
    THEN /\ staging' = staging \ {w}
         /\ quarantine' = move_bad_file(quarantine, w)
         /\ db' = save_bad_file_db(db, w, msg, WorkerInfo(w))
         /\ workers' = [workers EXCEPT ![w].pc = next, ![w].pending = NothingPending]
    ELSE /\ workers' = [workers EXCEPT ![w].pc = "raised", ![w].pending = NothingPending]
         /\ UNCHANGED <<staging, quarantine, db>>

\* lines 419-421
worker_duplicate_check ==
    /\ pc = "workers"
    /\ \E w \in Workers :
          /\ workers[w].pc = "dup_check"
          /\ IF filename_exists_in_dbb(WorkerView(w), workers[w].filename)
             THEN worker_bad_file(w, DUPLICATE_MSG, "returned")
             ELSE /\ workers' = [workers EXCEPT ![w].pc = "register"]
                  /\ UNCHANGED <<staging, quarantine, db>>
    /\ UNCHANGED <<pc, cur, keep, dryrun, listing, htvars, mv, archive, scratch_dirs, payload,
                   cwd, tx, seq, fault, start>>

\* line 424
worker_register_dataset ==
    /\ pc = "workers"
    /\ \E w \in Workers :
          /\ workers[w].pc = "register"
          /\ seq' = [seq EXCEPT !.dataset = @ + 1]
          /\ workers' = [workers EXCEPT
                 ![w].pc = "dest_exists",
                 ![w].dataset_id = seq'.dataset,
                 ![w].pending = [@ EXCEPT !.dataset = @ \cup {DatasetRow(seq'.dataset, WorkerInfo(w))}]]
    /\ UNCHANGED <<pc, cur, keep, dryrun, listing, htvars, mv, fsvars, db, tx, fault, start>>

\* lines 270-271: the call of handle_bad_file returns to line 274
worker_destination_check ==
    /\ pc = "workers"
    /\ \E w \in Workers :
          /\ workers[w].pc = "dest_exists"
          /\ IF archive[create_dbb_path(WorkerInfo(w))].exists
             THEN worker_bad_file(w, CONSISTENCY_MSG, "move")
             ELSE /\ workers' = [workers EXCEPT ![w].pc = "move"]
                  /\ UNCHANGED <<staging, quarantine, db>>
    /\ UNCHANGED <<pc, cur, keep, dryrun, listing, htvars, mv, archive, scratch_dirs, payload,
                   cwd, tx, seq, fault, start>>

\* lines 274-275: the transfer, here one that succeeds; copy2 writes over what is there
worker_move ==
    /\ pc = "workers"
    /\ \E w \in Workers :
          /\ workers[w].pc = "move"
          /\ archive' = [archive EXCEPT ![create_dbb_path(WorkerInfo(w))] = File(NContents, w)]
          /\ workers' = [workers EXCEPT ![w].pc = "save_ds"]
    /\ UNCHANGED <<pc, cur, keep, dryrun, listing, htvars, mv, staging, quarantine, scratch_dirs,
                   payload, cwd, dbvars, fault, start>>

\* line 278
worker_store_datastore_info ==
    /\ pc = "workers"
    /\ \E w \in Workers :
          /\ workers[w].pc = "save_ds"
          /\ workers' = [workers EXCEPT
                 ![w].pc = "rm_tar",
                 ![w].pending = [dataset |-> @.dataset,
                                 datastore |-> save_datastore_info(
                                     [EmptyRegistry EXCEPT !.datastore = workers[w].pending.datastore],
                                     WorkerInfo(w), workers[w].dataset_id).datastore]]
    /\ UNCHANGED <<pc, cur, keep, dryrun, listing, htvars, mv, fsvars, dbvars, fault, start>>

\* line 432, and lines 446-453 when the tarball is no longer in staging: rollback,
\* the copy removed from the archive, handle_bad_file
worker_remove_tarball ==
    /\ pc = "workers"
    /\ \E w \in Workers :
          /\ workers[w].pc = "rm_tar"
          /\ IF w \in staging
             THEN /\ staging' = staging \ {w}
                  /\ workers' = [workers EXCEPT ![w].pc = "commit"]
                  /\ UNCHANGED <<archive, quarantine, db>>
             ELSE /\ archive' = [archive EXCEPT ![create_dbb_path(WorkerInfo(w))] = NoFile]
                  /\ worker_bad_file(w, "FileNotFoundError", "returned")
    /\ UNCHANGED <<pc, cur, keep, dryrun, listing, htvars, mv, scratch_dirs, payload, cwd, tx,
                   seq, fault, start>>

\* lines 433-434: what the worker has pending becomes visible to the others
worker_commit ==
    /\ pc = "workers"
    /\ \E w \in Workers :
          /\ workers[w].pc = "commit"
          /\ db' = WorkerView(w)
          /\ workers' = [workers EXCEPT ![w].pc = "returned", ![w].pending = NothingPending,
                                         ![w].committed = TRUE,
                                         ![w].overlap = Overlapping(w) # {}]
    /\ UNCHANGED <<pc, cur, keep, dryrun, listing, htvars, mv, fsvars, tx, seq, fault, start>>

NextWorkers ==
    \/ worker_duplicate_check
    \/ worker_register_dataset
    \/ worker_destination_check
    \/ worker_move
    \/ worker_store_datastore_info
    \/ worker_remove_tarball
    \/ worker_commit

SpecWorkers == InitWorkers /\ [][NextWorkers]_vars

\* ================================================================ claims
\* handle_tarball has ended for the bundle cur, by a return or by an exception
Handled == pc = "handle" /\ hpc \in {"returned", "raised"}

\* the tarball was opened and its three checksums agree
Verified ==
    /\ tar # NoTar
    /\ tar.members = "three"
    /\ tar.digest_info = calc_chksum(tar.info_content)
    /\ tar.digest_file = calc_chksum(tar.content)
    /\ tar.info_chksum = tar.digest_file

InStaging == cur \in staging
InQuarantine == quarantine[cur] = "bundle"
InArchive == src_info.parsed /\ archive[create_dbb_path(src_info)] = File(tar.content, cur)

\* the registry held a DatastoreEntry of the bundle's filename when the bundle began
HadEntry == \E r \in start.db.datastore : r.filename = tar.fname
\* the archive held a file at the bundle's destination when the bundle began
HadFile == src_info.parsed /\ start.archive[create_dbb_path(src_info)].exists

NewDatasets == db.dataset \ start.db.dataset
NewDatastore == db.datastore \ start.db.datastore
BadFileRecords == {r \in db.bad_file : r.uniq_filename = cur}

\* C1: after handle_tarball has ended for a bundle, whatever the outcome, the payload
\* is in the staging directory, in the quarantine area or at its archive destination.
C1_NeverLosesData == Handled => (InStaging \/ InQuarantine \/ InArchive)

\* the bundle was ingested: one new Dataset, one new DatastoreEntry, both committed,
\* the payload at its destination, the tarball gone from staging
IngestedOnce ==
    /\ hpc = "returned"
    /\ NewDatasets = {DatasetRow(dataset_id, src_info)}
    /\ NewDatastore = {DatastoreRow(src_info, dataset_id)}
    /\ src_info.filename = tar.fname
    /\ InArchive
    /\ ~InStaging

\* the preconditions of C2: checksums agree, no DatastoreEntry of the filename when
\* the bundle began, no failure of the environment
C2_Pre ==
    /\ Handled
    /\ Verified
    /\ ~HadEntry
    /\ fault = "none"

\* C2 as stated: every verified bundle with a new filename, no operation failing, ends
\* ingested: one Dataset, one DatastoreEntry, payload archived, tarball gone.
C2_Original == C2_Pre => IngestedOnce

\* C2 as amended: the same, for a bundle whose archive destination did not exist
\* when the bundle began.
C2_IngestedOnce == (C2_Pre /\ ~HadFile) => IngestedOnce

C2_Witness ==
    /\ C2_Pre
    /\ ~HadFile
    /\ IngestedOnce
    /\ mv.attempts > 1
    /\ cur = NBundles

FullyIngested ==
    /\ ~InStaging
    /\ ~InQuarantine
    /\ InArchive
    /\ DatasetRow(dataset_id, src_info) \in db.dataset
    /\ DatastoreRow(src_info, dataset_id) \in db.datastore

FullyQuarantined ==
    /\ ~InStaging
    /\ InQuarantine
    /\ BadFileRecords # {}
    /\ NewDatasets = {}
    /\ NewDatastore = {}

\* C3: after processing, a bundle is fully ingested or fully quarantined, whatever
\* step failed (a SyntaxError, which aborts the run, set aside).
C3_FinalStates == (Handled /\ exc.type # "SyntaxError") => (FullyIngested \/ FullyQuarantined)

\* C4: a failure other than SyntaxError at any step of a bundle ends with the
\* transaction rolled back, the bundle quarantined and handle_tarball returning
\* normally, so that main goes on with the next bundle.
C4_Isolated ==
    (Handled /\ exc.type \notin {"none", "SyntaxError"}) =>
        (hpc = "returned" /\ tx = db /\ ~InStaging /\ InQuarantine)

\* C5: a destination that exists when the bundle begins is never overwritten or
\* deleted, no copy to it is attempted and no DatastoreEntry is written; the bundle
\* ends quarantined with the consistency message.
C5_NotOverwritten ==
    (pc = "handle" /\ HadFile) =>
        /\ archive[create_dbb_path(src_info)] = start.archive[create_dbb_path(src_info)]
        /\ mv.attempts = 0
        /\ tx.datastore = start.db.datastore
        /\ (Handled /\ Verified /\ fault = "none" /\ ~HadEntry) =>
                 /\ hpc = "returned"
                 /\ InQuarantine
                 /\ \E r \in BadFileRecords : r.rejected_msg = CONSISTENCY_MSG

\* C6: a bundle whose payload or manifest checksum differs from the digest ends in
\* the quarantine directory with a committed BadFileRecord carrying the integrity
\* message, and no RegistrationProcess, Dataset or DatastoreEntry is created.
C6_IntegrityQuarantine ==
    (/\ Handled
     /\ tar # NoTar
     /\ fault = "none"
     /\ \/ tar.digest_info # calc_chksum(tar.info_content)
        \/ tar.digest_file # calc_chksum(tar.content)) =>
        /\ InQuarantine
        /\ ~InStaging
        /\ \E r \in BadFileRecords : r.rejected_msg = "chksums do not match"
        /\ db.process = start.db.process
        /\ NewDatasets = {}
        /\ NewDatastore = {}

\* C7: a bundle whose filename already has a committed DatastoreEntry gets no
\* Dataset and no transfer, the registered entry and the archive stay as they were,
\* and, its checksums agreeing and no operation failing, it ends quarantined with
\* the BadFileRecord 'Duplicate file'.
C7_Duplicate ==
    (pc = "handle" /\ tar # NoTar /\ HadEntry) =>
        /\ mv.pc = "idle"
        /\ mv.attempts = 0
        /\ tx.dataset = start.db.dataset
        /\ tx.datastore = start.db.datastore
        /\ db.datastore = start.db.datastore
        /\ archive = start.archive
        /\ (Handled /\ Verified /\ fault = "none") =>
              /\ hpc = "returned"
              /\ InQuarantine
              /\ ~InStaging
              /\ BadFileRecords = {BadFileRow(cur, DUPLICATE_MSG, src_info)}

\* bundle B, of another uuid than the registered ones, rejected as a duplicate
C7_Witness ==
    /\ Handled
    /\ Verified
    /\ HadEntry
    /\ fault = "none"
    /\ \A r \in start.db.lookup : r.uuid # tar.uuid
    /\ hbf = [from |-> "duplicate", msg |-> DUPLICATE_MSG]
    /\ InQuarantine
    /\ BadFileRow(cur, DUPLICATE_MSG, src_info) \in db.bad_file

\* C8: the registry holds at most one lookup row and one process row per uuid, and a
\* bundle whose uuid was registered before it began gets that process id without a
\* new process, file-registration or lookup row.
C8_OneProcessPerUuid ==
    /\ \A u \in Uuids :
          /\ Cardinality({r \in db.lookup : r.uuid = u}) <= 1
          /\ Cardinality({r \in tx.lookup : r.uuid = u}) <= 1
    /\ {r.id : r \in db.process} = {r.process_id : r \in db.lookup}
    /\ Cardinality(db.process) = Cardinality(db.lookup)
    /\ (pc = "handle" /\ src_info.parsed /\ (\E r \in start.db.lookup : r.uuid = src_info.uuid)) =>
          /\ tx.lookup = start.db.lookup
          /\ tx.file_registration = start.db.file_registration
          /\ {r.id : r \in tx.process} = {r.id : r \in start.db.process}
          /\ src_info.process_id # 0 =>
                [uuid |-> src_info.uuid, process_id |-> src_info.process_id] \in start.db.lookup

\* a later bundle ingested under the process id an earlier bundle registered
C8_Witness ==
    /\ Handled
    /\ cur > 1
    /\ [uuid |-> src_info.uuid, process_id |-> src_info.process_id] \in start.db.lookup
    /\ FullyIngested

\* C9: once a copy has passed, after k failed attempts, exactly k + 1 copies were
\* attempted with k < max_tries, the function does not raise, the destination holds
\* a copy whose checksum is the expected one (when one is given), and on return
\* the source is deleted.
C9_RetryThenSuccess ==
    /\ mv.copied =>
          /\ mv.attempts = mv.fails + 1
          /\ mv.fails < mv.max_tries
          /\ mv.pc \in {"loop", "done"}
          /\ archive[mv.dst].exists
          /\ mv.expected # None => calc_chksum(archive[mv.dst].content) = mv.expected
    /\ mv.pc = "done" => (mv.copied /\ ~payload.exists)
    /\ mv.pc = "raised" => (~mv.copied /\ payload.exists)

\* returned after four failed attempts and a fifth that passed the comparison
C9_Witness ==
    /\ mv.pc = "done"
    /\ mv.fails = DEFAULT_MV_TRIES - 1
    /\ mv.attempts = DEFAULT_MV_TRIES
    /\ mv.matched
    /\ ~payload.exists
    /\ calc_chksum(archive[mv.dst].content) = mv.expected

\* the destination holds a copy that was compared with, and has, the expected checksum
DestinationVerified ==
    /\ mv.matched
    /\ archive[mv.dst].exists
    /\ calc_chksum(archive[mv.dst].content) = mv.expected

\* C10 as stated: for every expected checksum the source is deleted only once the
\* destination holds a copy found equal to it.
C10_Original == (mv.unlinked \/ ~payload.exists) => DestinationVerified

\* C10 as amended: for every expected checksum other than None.
C10_VerifiedBeforeDelete ==
    /\ ~payload.exists => mv.unlinked
    /\ (mv.unlinked /\ mv.expected # None) => DestinationVerified

C10_Witness ==
    /\ mv.unlinked
    /\ mv.expected # None
    /\ mv.fails > 0
    /\ DestinationVerified
    /\ start.archive[mv.dst].exists

\* C11: when every attempt fails, move_file_to_dbb raises after exactly max_tries
\* copy attempts with the source still there and nothing at the destination; the
\* caller then has the bundle in the quarantine area with a BadFileRecord and
\* nothing of it registered, and, the destination having been free when the bundle
\* began, handle_tarball returns with the record of the transfer error.
C11_BoundedTransfer ==
    /\ mv.pc # "idle" => mv.attempts <= mv.max_tries
    /\ mv.pc = "raised" =>
          /\ mv.attempts = mv.max_tries
          /\ mv.fails = mv.max_tries
          /\ ~mv.copied
          /\ payload.exists
          /\ ~archive[mv.dst].exists
    /\ (Handled /\ fault = "move_file_to_dbb") =>
          /\ mv.attempts = DEFAULT_MV_TRIES
          /\ payload.exists
          /\ ~archive[create_dbb_path(src_info)].exists
          /\ InQuarantine
          /\ ~InStaging
          /\ BadFileRecords # {}
          /\ NewDatasets = {}
          /\ NewDatastore = {}
          /\ ~HadFile =>
                /\ hpc = "returned"
                /\ BadFileRecords = {BadFileRow(cur, "Cannot cp file", src_info)}

\* five failed attempts, then the bundle quarantined by handle_tarball's handler
C11_Witness ==
    /\ Handled
    /\ fault = "move_file_to_dbb"
    /\ exc.type = "IOError"
    /\ mv.attempts = DEFAULT_MV_TRIES
    /\ ~HadFile
    /\ hpc = "returned"
    /\ InQuarantine
    /\ payload.exists

\* C12: while a bundle is handled, its tarball is gone from the staging directory
\* (and was not moved to the quarantine area) only once the Dataset, the
\* DatastoreEntry and the end time of its process are committed.
C12_RemovedAfterCommit ==
    (pc = "handle" /\ tar # NoTar /\ ~InStaging /\ ~InQuarantine) =>
        /\ DatasetRow(dataset_id, src_info) \in db.dataset
        /\ DatastoreRow(src_info, dataset_id) \in db.datastore
        /\ [id |-> src_info.process_id, end_time |-> TRUE] \in db.process

\* C13: the committed registry never holds a Dataset without a DatastoreEntry of
\* its id, nor a DatastoreEntry without its Dataset, and every commit that adds
\* one adds the other.
C13_DatasetWithEntry ==
    /\ []({r.id : r \in db.dataset} = {r.dataset_id : r \in db.datastore})
    /\ [][(db'.dataset # db.dataset) <=> (db'.datastore # db.datastore)]_vars

\* a quarantine commit (line 271) between the Dataset insert and the DatastoreEntry
\* insert of a later bundle, an earlier bundle being ingested
C13_Witness ==
    /\ pc = "handle" /\ hpc = "rm_tar"
    /\ hbf.from = "save_file_datastore"
    /\ BadFileRecords # {}
    /\ db.dataset # {}
    /\ DatastoreRow(src_info, dataset_id) \in tx.datastore
    /\ DatasetRow(dataset_id, src_info) \notin tx.dataset

RegistrationSteps ==
    {"get_registration_process_id", "save_registration_info", "filename_exists_in_dbb",
     "register_file_data", "create_dbb_path", "move_file_to_dbb", "save_datastore_info",
     "os.remove", "save_end_time", "commit"}

\* C15 as stated: after a failure (other than SyntaxError) in one of the registration
\* steps of a bundle, the committed registry holds no process, file-registration,
\* lookup, Dataset or DatastoreEntry row written for that bundle.
C15_Original ==
    (Handled /\ fault \in RegistrationSteps /\ exc.type # "SyntaxError") =>
        /\ db.process = start.db.process
        /\ db.file_registration = start.db.file_registration
        /\ db.lookup = start.db.lookup
        /\ db.dataset = start.db.dataset
        /\ db.datastore = start.db.datastore

EndedProcesses(reg) == {r.id : r \in {p \in reg.process : p.end_time}}

\* C15 as amended: after such a failure the connection holds nothing pending and
\* the committed registry holds no Dataset, no DatastoreEntry and no end-time update
\* written for that bundle; the process, file-registration and lookup rows that
\* save_registration_info committed stay, one per uuid.
C15_RolledBack ==
    (Handled /\ fault \in RegistrationSteps /\ exc.type # "SyntaxError") =>
        /\ tx = db
        /\ db.dataset = start.db.dataset
        /\ db.datastore = start.db.datastore
        /\ EndedProcesses(db) = EndedProcesses(start.db)
        /\ db.lookup \ start.db.lookup \subseteq
               {[uuid |-> src_info.uuid, process_id |-> src_info.process_id]}

\* the DatastoreEntry insert failed after the transfer: the Dataset is rolled back,
\* the process created for the bundle stays committed
C15_Witness ==
    /\ Handled
    /\ fault = "save_datastore_info"
    /\ exc.type = "Exception"
    /\ hpc = "returned"
    /\ dataset_id # 0
    /\ tx = db
    /\ db.dataset = start.db.dataset
    /\ db.lookup # start.db.lookup

\* C16: once a bundle has been handled, if its tarball was moved into the quarantine
\* area then a BadFileRecord of it is committed, whatever step failed.
C16_RecordWhenQuarantined == (Handled /\ InQuarantine) => BadFileRecords # {}

\* C17: between two bundles, and when main has ended or an exception has left it,
\* the working directory is the original one and, unless the keep flag is set, no
\* scratch directory exists; while a bundle is handled only its own exists.
C17_ScratchReleased ==
    /\ pc \in {"loop", "aborted", "closed"} =>
          /\ cwd = 0
          /\ ~keep => scratch_dirs = {}
          /\ keep => scratch_dirs = 1..cur
    /\ pc = "handle" =>
          /\ cur \in scratch_dirs
          /\ ~keep => scratch_dirs = {cur}

\* an exception raised inside the quarantine handler has left main, in the scratch
\* directory of the second bundle, and the directory is gone
C17_Witness ==
    /\ pc = "aborted"
    /\ cur = NBundles
    /\ exc.type = "KeyError"
    /\ ~keep
    /\ cwd = 0
    /\ scratch_dirs = {}

\* C18: a SyntaxError raised while a bundle is handled leaves handle_tarball and
\* main: the handler is not entered, and from then on nothing is rolled back, moved
\* to the quarantine area, removed from staging or written to the registry, and no
\* later bundle is started.
C18_SyntaxErrorPropagates ==
    /\ [](exc.type = "SyntaxError" =>
            /\ (pc = "handle" /\ hpc = "raised") \/ (pc = "aborted" /\ hpc = "idle")
            /\ hbf.from # "except")
    /\ [][exc.type = "SyntaxError" =>
            /\ exc' = exc
            /\ cur' = cur
            /\ tx' = tx
            /\ db' = db
            /\ quarantine' = quarantine
            /\ staging' = staging
            /\ archive' = archive]_vars

\* the run aborted on the first bundle with the Dataset insert still pending, the
\* tarball neither quarantined nor recorded, the second bundle untouched
C18_Witness ==
    /\ pc = "aborted"
    /\ exc.type = "SyntaxError"
    /\ cur = 1
    /\ tx # db
    /\ tx.dataset # {}
    /\ quarantine[1] # "bundle"
    /\ db.bad_file = {}
    /\ 2 \in staging

\* C19: with the dry-run flag set, no tarball leaves the staging directory, no file
\* is copied to or removed from the archive or the quarantine area, and the registry,
\* committed or pending, stays as it was.
C19_DryRun ==
    dryrun =>
        /\ staging = Bundles
        /\ mv.attempts = 0
        /\ \A b \in Bundles : quarantine[b] # "bundle"
        /\ \A f \in Filenames : archive[f].owner = 0
        /\ db = EmptyRegistry
        /\ tx = EmptyRegistry
        /\ seq = [process |-> 0, dataset |-> 0]

\* C20: a bundle that does not hold exactly one payload, one manifest and one digest
\* is rejected before any integrity check has passed and before any registry
\* operation or transfer.
C20_ThreeFiles ==
    (pc = "handle" /\ tar.members \notin {"none", "three"}) =>
        /\ hpc \in {"get_filenames", "integrity_info", "except", "bad_file", "raised", "returned"}
        /\ src_info = NoSrcInfo
        /\ mv.attempts = 0
        /\ tx.dataset = start.db.dataset
        /\ tx.datastore = start.db.datastore
        /\ tx.process = start.db.process

\* the tarballs of the delivery directory
DeliveredTarballs == {f \in Range(listing.dir.filenames) : listing.dir.is_tar[f]}

\* C21: the list get_list_tarballs returns holds each tarball of the delivery
\* directory exactly once, in ascending order of modification time, and main handles
\* them in the order of the list; when the directory does not exist a
\* FileNotFoundError leaves main before a registry connection is opened.
C21_OldestFirst ==
    /\ pc \in {"if_tarballs", "for", "done"} =>
          /\ listing.dir.exists
          /\ Range(listing.tarballs) = DeliveredTarballs
          /\ Len(listing.tarballs) = Cardinality(DeliveredTarballs)
          /\ \A i, j \in 1..Len(listing.tarballs) :
                i < j => listing.dir.mtime[listing.tarballs[i]] <= listing.dir.mtime[listing.tarballs[j]]
          /\ listing.handled = SubSeq(listing.tarballs, 1, cur)
          /\ pc = "done" => listing.handled = listing.tarballs
    /\ ~listing.dir.exists =>
          /\ pc \in {"get_list_tarballs", "FileNotFoundError"}
          /\ ~listing.dbh
          /\ listing.handled = <<>>

\* three tarballs listed newest first, all handled oldest first
C21_Witness ==
    /\ pc = "done"
    /\ Len(listing.handled) = NFiles
    /\ listing.dir.mtime[listing.dir.filenames[1]] > listing.dir.mtime[listing.dir.filenames[NFiles]]
    /\ listing.handled # listing.dir.filenames

\* both integrity checks and the consistency check were made and passed
ChecksPassed ==
    /\ tar.members \in {"three", "extra"}
    /\ tar.digest_info = calc_chksum(tar.info_content)
    /\ filename = tar.fname
    /\ tar.digest_file = calc_chksum(tar.content)
    /\ src_info.parsed
    /\ tar.digest_file = src_info.chksum

\* the positions of handle_tarball from the process lookup to the commit
RegistrationPositions ==
    {"get_process", "dup_check", "register", "resolve_path", "dest_exists", "move_call",
     "move", "save_ds", "rm_tar", "end_time", "commit"}

\* C22: while a bundle is handled, the registry is read or written (process, Dataset,
\* DatastoreEntry) and the payload transferred only once both integrity checks and
\* the consistency check have passed; a Dataset is created only with the process
\* resolved and no DatastoreEntry of the filename; the transfer starts only after
\* the Dataset was created; a DatastoreEntry is inserted only with the verified copy
\* in the archive; the commit is the last step.
C22_StateOrder ==
    pc = "handle" =>
        /\ (\/ hpc \in RegistrationPositions
            \/ src_info.process_id # 0
            \/ dataset_id # 0
            \/ mv.attempts > 0
            \/ tx.process # start.db.process
            \/ tx.dataset # start.db.dataset
            \/ tx.datastore # start.db.datastore) => ChecksPassed
        /\ hbf.from = "duplicate" => (src_info.process_id # 0 /\ dataset_id = 0 /\ mv.attempts = 0)
        /\ dataset_id # 0 => (src_info.process_id # 0 /\ ~HadEntry)
        /\ (mv.pc # "idle" \/ mv.attempts > 0) => dataset_id # 0
        /\ tx.datastore # start.db.datastore =>
              /\ mv.attempts > 0
              /\ InArchive
              /\ ~payload.exists
              /\ tx.datastore = start.db.datastore \cup {DatastoreRow(src_info, dataset_id)}
        /\ (db.dataset # start.db.dataset \/ db.datastore # start.db.datastore) =>
              /\ hpc = "returned"
              /\ db.dataset = start.db.dataset \cup {DatasetRow(dataset_id, src_info)}
              /\ db.datastore = start.db.datastore \cup {DatastoreRow(src_info, dataset_id)}
              /\ [id |-> src_info.process_id, end_time |-> TRUE] \in db.process
              /\ ~InStaging

\* the first bundle committed after a transfer that took two attempts
C22_Witness ==
    /\ pc = "handle" /\ hpc = "returned"
    /\ cur = 1
    /\ ChecksPassed
    /\ mv.attempts = 2
    /\ DatasetRow(dataset_id, src_info) \in db.dataset
    /\ DatastoreRow(src_info, dataset_id) \in db.datastore
    /\ [id |-> src_info.process_id, end_time |-> TRUE] \in db.process

\* C23: a bundle that failed before its manifest was parsed ends quarantined by a
\* handler that completed: handle_tarball returns, the tarball is in the quarantine
\* area, and a BadFileRecord with the rejection message and without manifest fields
\* or process id is committed.
C23_RecordWithoutManifest ==
    (Handled /\ ~src_info.parsed /\ exc.type \notin {"none", "SyntaxError"}) =>
        /\ hpc = "returned"
        /\ InQuarantine
        /\ ~InStaging
        /\ \E r \in BadFileRecords : r.filename = 0 /\ r.process_id = 0

\* C24: once handle_bad_file has got as far as move_bad_file, the file of the
\* tarball's name in the quarantine directory is the tarball just rejected, whether
\* or not a stale file of that name was there, and the tarball is no longer in
\* staging; nothing else in the quarantine directory changes, and nothing but
\* this call changes it.
C24_MovedToQuarantine ==
    /\ []((/\ pc = "handle"
           /\ hbf.from # "none"
           /\ hpc # "bad_file"
           /\ src_info.parsed
           /\ exc # [type |-> "FileNotFoundError", msg |-> "handle_bad_file"]) =>
              /\ quarantine = [start.quarantine EXCEPT ![cur] = "bundle"]
              /\ cur \notin staging)
    /\ [][quarantine' # quarantine =>
              /\ hpc = "bad_file"
              /\ cur \in staging
              /\ staging' = staging \ {cur}
              /\ quarantine' = [quarantine EXCEPT ![cur] = "bundle"]]_vars

\* the second bundle rejected as a duplicate, a stale file of its name replaced
C24_Witness ==
    /\ Handled
    /\ cur = NBundles
    /\ hbf.from = "duplicate"
    /\ start.quarantine[cur] = "stale"
    /\ quarantine[cur] = "bundle"
    /\ cur \notin staging

\* C25: after a bundle whose destination was free has been quarantined by the
\* failure handler and handle_tarball has returned, no file this bundle placed in
\* the archive is left there without a committed DatastoreEntry of its filename.
C25_CopyRemoved ==
    (Handled /\ hpc = "returned" /\ InQuarantine /\ ~HadFile) =>
        \A f \in Filenames :
            archive[f].owner = cur => \E r \in db.datastore : create_dbb_path(r) = f

EntriesOf(f) == {r \in db.datastore : r.filename = f}
Committers(f) == {w \in Workers : workers[w].committed /\ workers[w].filename = f}

\* C26: with workers on separate connections nothing in the registry holds a second
\* DatastoreEntry of a filename back: every worker that commits adds the entry of
\* its own Dataset, and two entries of one filename come from workers that both
\* were past the duplicate check before either committed.
C26_RacyDuplicateCheck ==
    pc = "workers" =>
        \A f \in Filenames :
            /\ Cardinality(EntriesOf(f)) = Cardinality(Committers(f))
            /\ EntriesOf(f) = {DatastoreRow(WorkerInfo(w), workers[w].dataset_id) : w \in Committers(f)}
            /\ Cardinality(EntriesOf(f)) > 1 => \E w \in Committers(f) : workers[w].overlap

\* two workers have committed a DatastoreEntry each for one filename
C26_Witness ==
    /\ pc = "workers"
    /\ \A w \in Workers : w <= 2 => (workers[w].pc = "returned" /\ workers[w].committed)
    /\ workers[1].filename = workers[2].filename
    /\ workers[1].dataset_id # workers[2].dataset_id
    /\ Cardinality(EntriesOf(workers[1].filename)) = 2
    /\ \E w \in Workers : workers[w].overlap

\* C27: when handle_tarball has returned, and so whenever main takes the next
\* bundle, the connection has nothing pending; while a bundle is handled, the rows
\* the registry held when the bundle started stay committed and stay in the
\* connection's view.
C27_NothingPending ==
    /\ (pc = "loop" \/ (pc = "handle" /\ hpc \in {"exists", "returned"})) => tx = db
    /\ pc = "handle" =>
          /\ start.db.dataset \subseteq db.dataset /\ start.db.dataset \subseteq tx.dataset
          /\ start.db.datastore \subseteq db.datastore /\ start.db.datastore \subseteq tx.datastore
          /\ start.db.bad_file \subseteq db.bad_file /\ start.db.bad_file \subseteq tx.bad_file

\* the second bundle has returned after a commit of its own, the first bundle's
\* rows in place
C27_Witness ==
    /\ pc = "handle" /\ hpc = "returned" /\ cur = 2
    /\ tx = db
    /\ db.datastore # start.db.datastore
    /\ start.db.bad_file # {}
    /\ start.db.bad_file \subseteq db.bad_file

====
